---- MODULE Spec2Model ----
(***************************************************************************)
(* Model of src/test-server.py: test_server() probes a fixed list of URLs  *)
(* with one blocking requests.get each and prints what came back.          *)
(*                                                                         *)
(* A text (a Python str) is the sequence of its code points, so a slice,   *)
(* a length and an encoding count characters as Python does.  Chars turns  *)
(* a string literal of printable ASCII into its text.  Standard output is  *)
(* a sequence of texts, one per print() call that succeeded.               *)
(***************************************************************************)
EXTENDS Integers, Sequences, FiniteSets, TLC

VARIABLES
    pc,         \* the statement test_server executes next
    i,          \* index in urls_to_test of the loop variable url (0: loop not entered)
    out,        \* standard output: one text per print() call that succeeded
    stdout_encoding, \* sys.stdout.encoding, set by the environment the script runs in
    calls,      \* the calls of requests.get made so far, in order: [target, url, timeout]
    wire,       \* the HTTP GETs written to a connection so far, in order: [target, hop]
    served,     \* the status code each GET of wire was answered with; 0: no answer
    inflight,   \* number of GETs written and not yet answered or failed
    server,     \* how the server of the current target behaves (chosen as the GET goes out)
    hops,       \* redirects requests.get has followed in the current call
    replies,    \* what each call of requests.get ended with: a response or an exception
    response,   \* the local variable response: <<>> while unbound, else <<r>>
    exc,        \* the exception being handled: <<>> or <<e>>
    exit_code   \* the process's exit status; -1 while it runs

vars == <<pc, i, out, stdout_encoding, calls, wire, served, inflight, server, hops,
          replies, response, exc, exit_code>>

-----------------------------------------------------------------------------
(* Texts *)

\* The printable ASCII characters in the order of their code points: U+0020 to
\* U+005F, and U+0061 to U+007E.  (U+0060 cannot stand in a string literal.)
AsciiLow  == " !\"#$%&'()*+,-./0123456789:;<=>?@ABCDEFGHIJKLMNOPQRSTUVWXYZ[\\]^_"
AsciiHigh == "abcdefghijklmnopqrstuvwxyz{|}~"

\* ord(ch) of a printable ASCII character.
Ord(ch) ==
    IF \E j \in 1..Len(AsciiLow) : SubSeq(AsciiLow, j, j) = ch
    THEN 31 + (CHOOSE j \in 1..Len(AsciiLow) : SubSeq(AsciiLow, j, j) = ch)
    ELSE 96 + (CHOOSE j \in 1..Len(AsciiHigh) : SubSeq(AsciiHigh, j, j) = ch)

\* The text of a string literal.
Chars(s) == [j \in 1..Len(s) |-> Ord(SubSeq(s, j, j))]

Min(a, b) == IF a < b THEN a ELSE b

\* c occurs in the text s
HasChar(s, c) == \E p \in 1..Len(s) : s[p] = c

\* the text t occurs in the text s
Contains(s, t) ==
    \E p \in 1..(Len(s) - Len(t) + 1) : SubSeq(s, p, p + Len(t) - 1) = t

RECURSIVE Decimal(_)
\* str(n) of an integer n >= 0
Decimal(n) == IF n < 10 THEN <<48 + n>> ELSE Decimal(n \div 10) \o <<48 + (n % 10)>>

-----------------------------------------------------------------------------
(* Bounds of the model and constants of the program *)

\* The longest body drawn has PreviewLen + MaxExtra characters.
MaxExtra == 1

\* response.text[:200]
PreviewLen == 200

\* requests.get(url, timeout=5)
TimeoutSecs == 5

\* requests.get follows redirects (allow_redirects defaults to True), at most
\* 30 in one call (the session's max_redirects).
MaxRedirects == 30

urls_to_test ==
    << Chars("http://localhost:3000"),
       Chars("http://localhost:3000/ping"),
       Chars("http://localhost:3000/api/health"),
       Chars("http://localhost:3001"),
       Chars("http://localhost:3001/ping") >>

NumTargets == Len(urls_to_test)

url == urls_to_test[i]

-----------------------------------------------------------------------------
(* The inputs: the environment, and what requests.get may meet *)

\* The encodings sys.stdout may have: one that holds every character, one that
\* holds ASCII only (PYTHONIOENCODING=ascii, a legacy console).
Encodings == {"utf-8", "ascii"}

Digits == Chars("0123456789")

\* Three hundred characters, the digits in rotation.
Hundred == Digits \o Digits \o Digits \o Digits \o Digits \o Digits \o Digits \o Digits \o Digits \o Digits
Pool    == Hundred \o Hundred \o Hundred

\* A body text of n characters (n at most 300).
Body(n) == SubSeq(Pool, 1, n)

\* U+00E9, a letter outside ASCII; U+00A0, the no-break space, and U+000C, the
\* form feed, which repr() writes as escapes.
EAcute   == 233
NoBreak  == 160
FormFeed == 12

\* response.headers is a CaseInsensitiveDict: entries in insertion order, each
\* holding the key as sent and the value.
HeadersNone == << >>
HeadersOne  == << [key |-> Chars("Content-Type"), val |-> Chars("text/plain")] >>
HeadersTwo  == << [key |-> Chars("Content-Type"), val |-> Chars("text/html")],
                  [key |-> Chars("X-Note"),
                   val |-> Chars("it's") \o <<NoBreak>> \o Chars("so") \o <<FormFeed>>] >>

\* What a server answers when it answers at once.
Pong == [kind |-> "response", status_code |-> 200, headers |-> HeadersOne, text |-> Chars("pong")]

\* The answers that are no redirects and arrive whole: bodies of 0, 4 and
\* PreviewLen + MaxExtra characters, the longest with a letter outside ASCII.
Responses ==
    { Pong,
      [kind |-> "response", status_code |-> 404, headers |-> HeadersNone, text |-> << >>],
      [kind |-> "response", status_code |-> 500, headers |-> HeadersTwo,
       text |-> <<EAcute>> \o Body(PreviewLen + MaxExtra - 1)] }

\* The exceptions requests.get raises when no connection can be made: nothing
\* listens on the port, or the connect does not end within the timeout.
ConnectFailures ==
    { [kind |-> "exception", cls |-> "ConnectionError", args |-> <<Chars("Connection refused")>>],
      [kind |-> "exception", cls |-> "ConnectTimeout",  args |-> <<Chars("Connection timed out")>>] }

\* The exceptions requests.get raises when a GET was written and no answer
\* comes: the server sends nothing for the time of the timeout, or it closes
\* the connection.
SendFailures ==
    { [kind |-> "exception", cls |-> "ReadTimeout",     args |-> <<Chars("Read timed out")>>],
      [kind |-> "exception", cls |-> "ConnectionError", args |-> <<Chars("Connection aborted")>>] }

\* The status code of an answer whose body fails to arrive.
Ok == 200

\* The exceptions requests.get raises when the status line and the headers of
\* the answer came and the body, which it reads before it returns, does not
\* come whole: the server closes early, or it sends nothing for the time of
\* the timeout (raised as ConnectionError, not as a Timeout).
BodyFailures ==
    { [kind |-> "exception", cls |-> "ChunkedEncodingError",
       args |-> <<Chars("('Connection broken: IncompleteRead(4 bytes read, 6 more expected)', IncompleteRead(4 bytes read, 6 more expected))")>>],
      [kind |-> "exception", cls |-> "ConnectionError", args |-> <<Chars("Read timed out.")>>] }

\* Raised by requests.get when it follows a redirect and no connection can be
\* made to the URL of Location.
DeadLocation ==
    [kind |-> "exception", cls |-> "ConnectionError", args |-> <<Chars("Connection refused")>>]

\* Raised by requests.get when the answer to the GET that follows the 30th
\* redirect is a redirect again.
TooManyRedirects ==
    [kind |-> "exception", cls |-> "TooManyRedirects",
     args |-> <<Chars("Exceeded 30 redirects.")>>]

\* How the server of a target behaves: it answers the GET (or fails to), it
\* redirects once, to a page that answers Pong or to a port where nothing
\* listens, or it redirects every GET.
Servers == {"answers", "redirects_once", "redirects_always"}

\* The status code of a redirect.
Found == 302

\* The direct base classes of the exception classes (requests.exceptions and
\* builtins); a class not listed is taken as an ordinary exception.
Bases(c) ==
    CASE c = "BaseException"          -> {}
      [] c = "Exception"              -> {"BaseException"}
      [] c = "KeyboardInterrupt"      -> {"BaseException"}
      [] c = "SystemExit"             -> {"BaseException"}
      [] c = "GeneratorExit"          -> {"BaseException"}
      [] c = "OSError"                -> {"Exception"}
      [] c = "ValueError"             -> {"Exception"}
      [] c = "TypeError"              -> {"Exception"}
      [] c = "UnicodeError"           -> {"ValueError"}
      [] c = "UnicodeEncodeError"     -> {"UnicodeError"}
      [] c = "UnicodeDecodeError"     -> {"UnicodeError"}
      [] c = "RequestException"       -> {"OSError"}
      [] c = "HTTPError"              -> {"RequestException"}
      [] c = "ConnectionError"        -> {"RequestException"}
      [] c = "ProxyError"             -> {"ConnectionError"}
      [] c = "SSLError"               -> {"ConnectionError"}
      [] c = "Timeout"                -> {"RequestException"}
      [] c = "ConnectTimeout"         -> {"ConnectionError", "Timeout"}
      [] c = "ReadTimeout"            -> {"Timeout"}
      [] c = "TooManyRedirects"       -> {"RequestException"}
      [] c = "URLRequired"            -> {"RequestException"}
      [] c = "MissingSchema"          -> {"RequestException", "ValueError"}
      [] c = "InvalidSchema"          -> {"RequestException", "ValueError"}
      [] c = "InvalidURL"             -> {"RequestException", "ValueError"}
      [] c = "InvalidHeader"          -> {"RequestException", "ValueError"}
      [] c = "InvalidProxyURL"        -> {"InvalidURL"}
      [] c = "ChunkedEncodingError"   -> {"RequestException"}
      [] c = "ContentDecodingError"   -> {"RequestException"}
      [] c = "StreamConsumedError"    -> {"RequestException", "TypeError"}
      [] c = "RetryError"             -> {"RequestException"}
      [] c = "UnrewindableBodyError"  -> {"RequestException"}
      [] OTHER                        -> {"Exception"}

RECURSIVE IsSubclass(_, _)
\* issubclass(c, base): what an except clause naming base tests.
IsSubclass(c, base) ==
    \/ c = base
    \/ \E b \in Bases(c) : IsSubclass(b, base)

-----------------------------------------------------------------------------
(* Formatting *)

\* U+274C and U+23F0, the marks of the failure lines.
CrossMark  == <<10060>>
AlarmClock == <<9200>>

\* dict(response.headers): the keys as sent, in insertion order, with their values.
Dict(h) == [j \in 1..Len(h) |-> <<h[j].key, h[j].val>>]

Apostrophe  == Ord("'")
DoubleQuote == Ord("\"")
Backslash   == Ord("\\")

\* str.isprintable() of a character of a header.  The text of a header is
\* decoded from its bytes as ISO-8859-1, so c lies below U+0100: there the
\* controls, U+007F to U+00A0 and the soft hyphen U+00AD are not printable,
\* the other characters are.
Printable(c) == (c >= 32 /\ c <= 126) \/ (c >= 161 /\ c <= 255 /\ c # 173)

HexDigits == Chars("0123456789abcdef")

RECURSIVE Hex(_, _)
\* c in n hexadecimal digits
Hex(c, n) == IF n = 0 THEN << >> ELSE Hex(c \div 16, n - 1) \o <<HexDigits[(c % 16) + 1]>>

\* The escape repr() writes for a character below U+0100 that is not
\* printable: \xhh, its code point in two hexadecimal digits.
HexEscape(c) == Chars("\\x") \o Hex(c, 2)

\* The quote repr() puts around a string: the double quote when the string
\* holds an apostrophe and no double quote, else the apostrophe.
QuoteOf(s) == IF HasChar(s, Apostrophe) /\ ~HasChar(s, DoubleQuote) THEN DoubleQuote ELSE Apostrophe

RECURSIVE Escaped(_, _, _)
\* The characters of s from position p on as repr() writes them between quotes q:
\* the backslash and the quote escaped, line feed, carriage return and tab by
\* their letters, every other character that is not printable by its code point.
Escaped(s, p, q) ==
    IF p > Len(s) THEN << >>
    ELSE LET c == s[p]
             e == CASE c = Backslash -> <<Backslash, Backslash>>
                    [] c = q         -> <<Backslash, c>>
                    [] c = 10        -> Chars("\\n")
                    [] c = 13        -> Chars("\\r")
                    [] c = 9         -> Chars("\\t")
                    [] OTHER         -> IF Printable(c) THEN <<c>> ELSE HexEscape(c)
         IN  e \o Escaped(s, p + 1, q)

\* repr() of a string.
ReprStr(s) == <<QuoteOf(s)>> \o Escaped(s, 1, QuoteOf(s)) \o <<QuoteOf(s)>>

\* repr() of the items of a dict of strings, as an f-string renders it.
RECURSIVE ReprItems(_)
ReprItems(d) ==
    IF Len(d) = 0 THEN << >>
    ELSE LET item == ReprStr(d[1][1]) \o Chars(": ") \o ReprStr(d[1][2])
         IN  IF Len(d) = 1 THEN item ELSE item \o Chars(", ") \o ReprItems(Tail(d))

Repr(d) == Chars("{") \o ReprItems(d) \o Chars("}")

\* response.text[:200]: a slice stops at the end of the string.
Preview(text) == SubSeq(text, 1, Min(PreviewLen, Len(text)))

TestingPrefix   == Chars("Testing ")
StatusPrefix    == Chars("  Status: ")
HeadersPrefix   == Chars("  Headers: ")
ContentPrefix   == Chars("  Content (first 200 chars): ")
ErrorPrefix     == Chars("  ") \o CrossMark \o Chars(" Error: ")

TestingLine(u)  == TestingPrefix \o u \o Chars("...")
StatusLine(r)   == StatusPrefix \o Decimal(r.status_code)
HeadersLine(r)  == HeadersPrefix \o Repr(Dict(r.headers))
ContentLine(r)  == ContentPrefix \o Preview(r.text)
RefusedLine     == Chars("  ") \o CrossMark \o Chars(" Connection refused")
TimeoutLine     == Chars("  ") \o AlarmClock \o Chars(" Timeout")

-----------------------------------------------------------------------------
(* Encoding a line for standard output *)

\* sys.stdout.errors.  The runs modelled have the handler "strict", the default
\* of a standard output; under the POSIX locale it is "surrogateescape".
stdout_errors == "strict"

\* The codec of stdout has no bytes for c: ASCII holds the characters below
\* U+0080, UTF-8 every character but the surrogates U+D800 to U+DFFF.
Unencodable(c) ==
    IF stdout_encoding = "ascii" THEN c >= 128 ELSE (c >= 55296 /\ c <= 57343)

\* The handler "surrogateescape" writes U+DC80 to U+DCFF as the bytes 80 to FF.
Escapable(c) == stdout_errors = "surrogateescape" /\ c >= 56448 /\ c <= 56575

\* The positions of text where encoding fails.
Failing(text) == {p \in 1..Len(text) : Unencodable(text[p]) /\ ~Escapable(text[p])}

\* print(text) succeeds when stdout can encode every character of text; else it
\* raises UnicodeEncodeError and writes nothing.
CanEncode(text) == Failing(text) = {}

\* The exception print(text) raises when it fails: UnicodeEncodeError(encoding,
\* object, start, end, reason), start the index from 0 of the first character
\* that fails and end the index after the run of characters the codec cannot
\* encode that follow it.
UnicodeEncodeError(text) ==
    LET p == CHOOSE f \in Failing(text) : \A g \in Failing(text) : f <= g
        q == CHOOSE l \in p..Len(text) :
                 /\ \A j \in p..l : Unencodable(text[j])
                 /\ l = Len(text) \/ ~Unencodable(text[l + 1])
    IN  [kind |-> "exception", cls |-> "UnicodeEncodeError",
         args |-> << stdout_encoding, text, p - 1, q,
                     IF stdout_encoding = "ascii"
                     THEN Chars("ordinal not in range(128)")
                     ELSE Chars("surrogates not allowed") >>]

\* The character c as the message of a UnicodeEncodeError names it.
CharEscape(c) ==
    IF c < 256 THEN Chars("\\x") \o Hex(c, 2)
    ELSE IF c < 65536 THEN Chars("\\u") \o Hex(c, 4)
    ELSE Chars("\\U") \o Hex(c, 8)

\* str(e) of a UnicodeEncodeError.
EncodeErrorMessage(e) ==
    LET encoding == e.args[1]
        object   == e.args[2]
        start    == e.args[3]
        end      == e.args[4]
        reason   == e.args[5]
    IN  Chars("'") \o Chars(encoding) \o Chars("' codec can't encode ")
        \o (IF end - start = 1
            THEN Chars("character '") \o CharEscape(object[start + 1])
                 \o Chars("' in position ") \o Decimal(start)
            ELSE Chars("characters in position ") \o Decimal(start)
                 \o Chars("-") \o Decimal(end - 1))
        \o Chars(": ") \o reason

\* str(e): of a UnicodeEncodeError its message, of an exception built with at
\* most one argument that argument.
Str(e) ==
    IF e.cls = "UnicodeEncodeError" THEN EncodeErrorMessage(e)
    ELSE IF Len(e.args) = 0 THEN << >> ELSE e.args[1]

ErrorLine(e)    == ErrorPrefix \o Str(e)

-----------------------------------------------------------------------------
(* The except clauses of the try statement, in source order *)

ExceptClauses ==
    << [catches |-> "ConnectionError", prints |-> "refused"],
       [catches |-> "Timeout",         prints |-> "timeout"],
       [catches |-> "Exception",       prints |-> "error"] >>

\* The index of the first clause that matches e; 0 when none does.
Matching(e) ==
    LET hits == {j \in 1..Len(ExceptClauses) : IsSubclass(e.cls, ExceptClauses[j].catches)}
    IN  IF hits = {} THEN 0 ELSE CHOOSE j \in hits : \A k \in hits : j <= k

HandlerLine(e) ==
    LET p == ExceptClauses[Matching(e)].prints
    IN  CASE p = "refused" -> RefusedLine
          [] p = "timeout" -> TimeoutLine
          [] p = "error"   -> ErrorLine(e)

\* The exit status of the process when exception e leaves test_server: the
\* interpreter prints the traceback and exits 1; a KeyboardInterrupt ends it as
\* SIGINT does (130 to a shell).
UncaughtStatus(e) == IF e.cls = "KeyboardInterrupt" THEN 130 ELSE 1

-----------------------------------------------------------------------------
(* The program *)

Init ==
    /\ pc = "for"
    /\ i = 0
    /\ out = << >>
    /\ stdout_encoding \in Encodings
    /\ calls = << >>
    /\ wire = << >>
    /\ served = << >>
    /\ inflight = 0
    /\ server = "answers"
    /\ hops = 0
    /\ replies = << >>
    /\ response = << >>
    /\ exc = << >>
    /\ exit_code = -1

\* A print(text) inside the try block: the text goes out and the block goes on
\* at statement then, or print raises UnicodeEncodeError, which the except
\* clauses receive.
TryPrint(text, then) ==
    IF CanEncode(text)
    THEN /\ out' = Append(out, text)
         /\ pc' = then
         /\ exc' = exc
    ELSE /\ out' = out
         /\ pc' = "except"
         /\ exc' = <<UnicodeEncodeError(text)>>

\* for url in urls_to_test: the next url
ForNext ==
    /\ pc = "for"
    /\ i < NumTargets
    /\ i' = i + 1
    /\ pc' = "testing"
    /\ UNCHANGED <<out, stdout_encoding, calls, wire, served, inflight, server, hops,
                   replies, response, exc, exit_code>>

\* The list is exhausted: test_server returns, the script ends, exit status 0.
ForEnd ==
    /\ pc = "for"
    /\ i = NumTargets
    /\ pc' = "exited"
    /\ exit_code' = 0
    /\ UNCHANGED <<i, out, stdout_encoding, calls, wire, served, inflight, server, hops,
                   replies, response, exc>>

\* print(f"Testing {url}...")
PrintTesting ==
    /\ pc = "testing"
    /\ TryPrint(TestingLine(url), "get")
    /\ UNCHANGED <<i, stdout_encoding, calls, wire, served, inflight, server, hops,
                   replies, response, exit_code>>

\* Faulty variant of GetSend: the request goes out and the loop moves on without waiting.
GetSend_NoWait ==
    /\ pc = "get"
    /\ \E s \in Servers : server' = s
    /\ hops' = 0
    /\ calls' = Append(calls, [target |-> i, url |-> url, timeout |-> TimeoutSecs])
    /\ wire' = Append(wire, [target |-> i, hop |-> 0])
    /\ inflight' = inflight + 1
    /\ pc' = "blank"
    /\ UNCHANGED <<i, out, stdout_encoding, served, replies, response, exc, exit_code>>

\* requests.get(url, timeout=5) is called and no connection can be made: the
\* call raises, and no GET was written.
GetConnectFail ==
    /\ pc = "get"
    /\ calls' = Append(calls, [target |-> i, url |-> url, timeout |-> TimeoutSecs])
    /\ \E e \in ConnectFailures :
          /\ exc' = <<e>>
          /\ replies' = Append(replies, e)
    /\ pc' = "except"
    /\ UNCHANGED <<i, out, stdout_encoding, wire, served, inflight, server, hops,
                   response, exit_code>>

\* requests.get(url, timeout=5) is called and the connection is made: the GET
\* for url is written and the call blocks.  What the server will do with it is
\* the environment's choice.
GetSend ==
    /\ pc = "get"
    /\ \E s \in Servers : server' = s
    /\ hops' = 0
    /\ calls' = Append(calls, [target |-> i, url |-> url, timeout |-> TimeoutSecs])
    /\ wire' = Append(wire, [target |-> i, hop |-> 0])
    /\ inflight' = inflight + 1
    /\ pc' = "wait"
    /\ UNCHANGED <<i, out, stdout_encoding, served, replies, response, exc, exit_code>>

\* Inside requests.get: the answer is a redirect and fewer than 30 were
\* followed, so the GET for the URL of Location is written.
GetRedirect ==
    /\ pc = "wait"
    /\ \/ server = "redirects_once" /\ hops = 0
       \/ server = "redirects_always"
    /\ hops < MaxRedirects
    /\ served' = Append(served, Found)
    /\ hops' = hops + 1
    /\ wire' = Append(wire, [target |-> i, hop |-> hops + 1])
    /\ UNCHANGED <<pc, i, out, stdout_encoding, calls, inflight, server, replies,
                   response, exc, exit_code>>

\* requests.get returns the response that is no redirect, which is bound to the
\* local variable: the answer of the target, or of the page it redirected to.
GetReturn ==
    /\ pc = "wait"
    /\ \E r \in Responses :
          /\ \/ server = "answers"
             \/ server = "redirects_once" /\ hops = 1 /\ r = Pong
          /\ response' = <<r>>
          /\ replies' = Append(replies, r)
          /\ served' = Append(served, r.status_code)
    /\ inflight' = inflight - 1
    /\ pc' = "status"
    /\ UNCHANGED <<i, out, stdout_encoding, calls, wire, server, hops, exc, exit_code>>

\* requests.get raises after a GET was written: no answer came to it, the
\* answer came and its body did not, no connection could be made to the URL a
\* redirect named, or the answer to the GET after the 30th redirect is one more
\* redirect.
GetRaise ==
    /\ pc = "wait"
    /\ \/ /\ server = "answers"
          /\ \E e \in SendFailures :
                /\ exc' = <<e>>
                /\ replies' = Append(replies, e)
          /\ served' = Append(served, 0)
       \/ /\ server = "answers"
          /\ \E e \in BodyFailures :
                /\ exc' = <<e>>
                /\ replies' = Append(replies, e)
          /\ served' = Append(served, Ok)
       \/ /\ server = "redirects_once"
          /\ hops = 0
          /\ exc' = <<DeadLocation>>
          /\ replies' = Append(replies, DeadLocation)
          /\ served' = Append(served, Found)
       \/ /\ server = "redirects_always"
          /\ hops = MaxRedirects
          /\ exc' = <<TooManyRedirects>>
          /\ replies' = Append(replies, TooManyRedirects)
          /\ served' = Append(served, Found)
    /\ inflight' = inflight - 1
    /\ pc' = "except"
    /\ UNCHANGED <<i, out, stdout_encoding, calls, wire, server, hops, response, exit_code>>

\* print(f"  Status: {response.status_code}")
PrintStatus ==
    /\ pc = "status"
    /\ TryPrint(StatusLine(response[1]), "headers")
    /\ UNCHANGED <<i, stdout_encoding, calls, wire, served, inflight, server, hops,
                   replies, response, exit_code>>

\* print(f"  Headers: {dict(response.headers)}")
PrintHeaders ==
    /\ pc = "headers"
    /\ TryPrint(HeadersLine(response[1]), "content")
    /\ UNCHANGED <<i, stdout_encoding, calls, wire, served, inflight, server, hops,
                   replies, response, exit_code>>

\* if response.text: print(f"  Content (first 200 chars): {response.text[:200]}")
PrintContent ==
    /\ pc = "content"
    /\ IF response[1].text # << >>
       THEN TryPrint(ContentLine(response[1]), "try_blank")
       ELSE /\ out' = out
            /\ pc' = "try_blank"
            /\ exc' = exc
    /\ UNCHANGED <<i, stdout_encoding, calls, wire, served, inflight, server, hops,
                   replies, response, exit_code>>

\* print(), the last statement of the try block
PrintTryBlank ==
    /\ pc = "try_blank"
    /\ TryPrint(<< >>, "blank")
    /\ UNCHANGED <<i, stdout_encoding, calls, wire, served, inflight, server, hops,
                   replies, response, exit_code>>

\* The except clauses: the first that matches prints its line, and the
\* statement after the try goes on.  An exception none matches leaves
\* test_server and ends the process; so does the UnicodeEncodeError the print of
\* the clause raises when stdout cannot encode its line.
Except ==
    /\ pc = "except"
    /\ IF Matching(exc[1]) = 0
       THEN /\ pc' = "exited"
            /\ exit_code' = UncaughtStatus(exc[1])
            /\ out' = out
       ELSE IF CanEncode(HandlerLine(exc[1]))
            THEN /\ pc' = "blank"
                 /\ exit_code' = exit_code
                 /\ out' = Append(out, HandlerLine(exc[1]))
            ELSE /\ pc' = "exited"
                 /\ exit_code' = UncaughtStatus(UnicodeEncodeError(HandlerLine(exc[1])))
                 /\ out' = out
    /\ exc' = << >>
    /\ UNCHANGED <<i, stdout_encoding, calls, wire, served, inflight, server, hops,
                   replies, response>>

\* print(), after the try statement; the empty line is in every encoding
PrintBlank ==
    /\ pc = "blank"
    /\ out' = Append(out, << >>)
    /\ pc' = "for"
    /\ UNCHANGED <<i, stdout_encoding, calls, wire, served, inflight, server, hops,
                   replies, response, exc, exit_code>>

Next ==
    \/ ForNext
    \/ ForEnd
    \/ PrintTesting
    \/ GetConnectFail
    \/ GetSend
    \/ GetRedirect
    \/ GetReturn
    \/ GetRaise
    \/ PrintStatus
    \/ PrintHeaders
    \/ PrintContent
    \/ PrintTryBlank
    \/ Except
    \/ PrintBlank

\* No fairness is stated: timeout=5 bounds the connect and each single read,
\* not the call, so nothing makes a blocked requests.get end.
Spec == Init /\ [][Next]_vars

\* The runs on a terminal that takes every character.
InitUtf8 == Init /\ stdout_encoding = "utf-8"

SpecUtf8 == InitUtf8 /\ [][Next]_vars

-----------------------------------------------------------------------------
(* Reading the output back: entries and their lines *)

N == NumTargets

Done == pc = "exited"

\* The loop is at its head: every entry printed so far is finished.
AtLoopHead == pc \in {"for", "exited"}

\* Nothing more will be printed for target k.
Finished(k) == Done \/ k < i \/ (k = i /\ pc = "for")

HasPrefix(s, p) == Len(s) >= Len(p) /\ SubSeq(s, 1, Len(p)) = p

IsTestingLine(l) == HasPrefix(l, TestingPrefix)
IsStatusLine(l)  == HasPrefix(l, StatusPrefix)
IsHeadersLine(l) == HasPrefix(l, HeadersPrefix)
IsContentLine(l) == HasPrefix(l, ContentPrefix)
IsErrorLine(l)   == HasPrefix(l, ErrorPrefix)
IsFailureLine(l) == l = RefusedLine \/ l = TimeoutLine \/ IsErrorLine(l)
\* A line that states a probe's result: the status of a response, or a failure marker.
IsResultLine(l)  == IsStatusLine(l) \/ IsFailureLine(l)
IsBlank(l)       == l = << >>

RECURSIVE Split(_, _)
\* The lines s cut into entries, a new entry at every "Testing ..." line; lines
\* that precede the first such line make an entry of their own.
Split(s, acc) ==
    IF s = << >> THEN acc
    ELSE IF IsTestingLine(Head(s)) \/ acc = << >>
         THEN Split(Tail(s), Append(acc, <<Head(s)>>))
         ELSE Split(Tail(s), [acc EXCEPT ![Len(acc)] = Append(@, Head(s))])

Entries == Split(out, << >>)

\* The entry of target k; empty when nothing was printed for it.
EntryOf(k) == IF k <= Len(Entries) THEN Entries[k] ELSE << >>

Count(s, Is(_)) == Len(SelectSeq(s, Is))

ResultLines(entry)  == SelectSeq(entry, IsResultLine)
ContentLines(entry) == SelectSeq(entry, IsContentLine)

RECURSIVE StripBlank(_)
\* s without the blank lines that end it
StripBlank(s) ==
    IF Len(s) > 0 /\ s[Len(s)] = << >> THEN StripBlank(SubSeq(s, 1, Len(s) - 1)) ELSE s

\* The number of blank lines that end s.
TrailingBlanks(s) == Len(s) - Len(StripBlank(s))

\* The positions in calls of the calls made for target k, and in wire of the
\* GETs written for it.
CallsOf(k) == {j \in 1..Len(calls) : calls[j].target = k}
GetsOf(k)  == {j \in 1..Len(wire) : wire[j].target = k}

IsResponse(e) == e.kind = "response"
IsTimeout(e)  == /\ e.kind = "exception"
                 /\ \/ e.cls \in {"ConnectTimeout", "ReadTimeout"}
                    \/ e \in BodyFailures /\ e.cls = "ConnectionError"
IsRefused(e)  == e \in ConnectFailures /\ e.cls = "ConnectionError"
IsOther(e)    == /\ e.kind = "exception"
                 /\ ~IsSubclass(e.cls, "ConnectionError")
                 /\ ~IsSubclass(e.cls, "Timeout")

\* The calls of the run ended in every way: a response, a refusal, a timeout
\* and another error.
AllKindsSeen ==
    \E a, b, c, d \in 1..Len(replies) :
        /\ IsResponse(replies[a])
        /\ IsRefused(replies[b])
        /\ IsTimeout(replies[c])
        /\ IsOther(replies[d])

-----------------------------------------------------------------------------
(* C1, C2: the run as a whole *)

\* C1: whatever each request ended with, a finished run has printed one entry
\* per target, the entries open with the "Testing <url>..." lines of the targets
\* in the order of urls_to_test, and every entry holds exactly one result line.
ExactlyOneResultPerTargetInOrder ==
    Done =>
        /\ Len(Entries) = N
        /\ \A k \in 1..N :
              /\ EntryOf(k) # << >>
              /\ EntryOf(k)[1] = TestingLine(urls_to_test[k])
              /\ Count(EntryOf(k), IsResultLine) = 1

\* C2: whatever the requests ended with, the process does not end with an
\* error: whenever it has ended, its exit status is 0.
RunEndsWithSuccess == Done => exit_code = 0

-----------------------------------------------------------------------------
(* C3, C4, C5: the failures *)

\* C3: every target whose request timed out, while connecting or while waiting
\* for the response, has the Timeout line as its one result.
TimeoutReportedAsTimeout ==
    \A k \in 1..Len(replies) :
        (Finished(k) /\ IsTimeout(replies[k])) =>
            ResultLines(EntryOf(k)) = <<TimeoutLine>>

\* C4: every target whose connection was refused has the "Connection refused"
\* line as its one result, so neither Timeout nor Error.
RefusedReportedAsRefused ==
    \A k \in 1..Len(replies) :
        (Finished(k) /\ IsRefused(replies[k])) =>
            ResultLines(EntryOf(k)) = <<RefusedLine>>

\* C5: every target whose request raised an exception that is neither a
\* connection failure nor a timeout has as its one result the Error line with
\* the exception's message, and in a finished run the next target, if any, was
\* probed.
OtherErrorReportedAndRunGoesOn ==
    \A k \in 1..Len(replies) :
        (Finished(k) /\ IsOther(replies[k])) =>
            /\ ResultLines(EntryOf(k)) = <<ErrorPrefix \o replies[k].args[1]>>
            /\ (Done /\ k < N) =>
                  /\ CallsOf(k + 1) # {}
                  /\ EntryOf(k + 1) # << >>
                  /\ EntryOf(k + 1)[1] = TestingLine(urls_to_test[k + 1])

-----------------------------------------------------------------------------
(* C6, C7: the responses *)

\* The status code the GET for target k itself was answered with; 0 when none
\* was written or it got no answer (yet).
AnswerOf(k) ==
    LET first == {j \in GetsOf(k) : wire[j].hop = 0}
    IN  IF first = {} THEN 0
        ELSE LET j == CHOOSE g \in first : TRUE
             IN  IF j <= Len(served) THEN served[j] ELSE 0

\* C6: every target that answered its GET with an HTTP response, whatever the
\* status code, has the line of exactly that status code as its one result and
\* no failure line; when requests.get returned a response, one headers line
\* follows that shows every header of it, key and value as repr() writes them,
\* and a 200 response with body "pong" shows the preview "pong".
ResponseReportedAsSuccess ==
    \A k \in 1..N :
        (Finished(k) /\ AnswerOf(k) # 0) =>
            LET E == EntryOf(k)
            IN  /\ ResultLines(E) = <<StatusPrefix \o Decimal(AnswerOf(k))>>
                /\ Count(E, IsFailureLine) = 0
                /\ (k <= Len(replies) /\ IsResponse(replies[k])) =>
                      LET r == replies[k]
                      IN  /\ Len(E) >= 3
                          /\ IsHeadersLine(E[3])
                          /\ Count(E, IsHeadersLine) = 1
                          /\ \A j \in 1..Len(r.headers) :
                                Contains(E[3], ReprStr(r.headers[j].key) \o Chars(": ")
                                                 \o ReprStr(r.headers[j].val))
                          /\ (r.status_code = 200 /\ r.text = Chars("pong")) =>
                                (Len(E) >= 4 /\ E[4] = ContentPrefix \o Chars("pong"))

\* C7: for every response requests.get returned: an empty body gives no content
\* line while the status and headers lines are there; a non-empty body gives one
\* content line whose preview is the first min(200, length) characters of the body.
PreviewIsFirst200Chars ==
    \A k \in 1..Len(replies) :
        (Finished(k) /\ IsResponse(replies[k])) =>
            LET E == EntryOf(k)
                t == replies[k].text
                C == ContentLines(E)
            IN  IF t = << >>
                THEN /\ C = << >>
                     /\ Count(E, IsStatusLine) = 1
                     /\ Count(E, IsHeadersLine) = 1
                ELSE /\ Len(C) = 1
                     /\ LET p == SubSeq(C[1], Len(ContentPrefix) + 1, Len(C[1]))
                        IN  /\ Len(p) = Min(200, Len(t))
                            /\ HasPrefix(t, p)

-----------------------------------------------------------------------------
(* C8, C9: the requests *)

\* C8: at every moment at most one GET was sent for each target and
\* requests.get was called at most once for it, also after a failure; and every
\* target the run is done with had its one call.
OneGetPerTarget ==
    \A k \in 1..N :
        /\ Cardinality(GetsOf(k)) <= 1
        /\ Cardinality(CallsOf(k)) <= 1
        /\ Finished(k) => Cardinality(CallsOf(k)) = 1

\* C9: at most one GET is outstanding at any moment, and when requests.get is
\* about to be called for a target, every earlier GET has been answered or has
\* failed, every earlier call has ended, and the entry of every earlier target
\* in the output already holds its result.
StrictlySequential ==
    /\ inflight \in {0, 1}
    /\ inflight = Len(wire) - Len(served)
    /\ pc = "wait" => (Len(calls) = i /\ Len(replies) = i - 1)
    /\ pc = "get" =>
          /\ inflight = 0
          /\ Len(calls) = i - 1
          /\ Len(replies) = i - 1
          /\ Count(out, IsTestingLine) = i
          /\ \A k \in 1..(i - 1) : Count(EntryOf(k), IsResultLine) >= 1

\* The last target is about to be probed after calls that ended in every way.
C9_Witness ==
    /\ pc = "get"
    /\ i = N
    /\ AllKindsSeen
    /\ Count(out, IsResultLine) = N - 1

-----------------------------------------------------------------------------
(* C10 *)

\* C10: whenever the loop is at its head, every entry printed so far opens with
\* its "Testing <url>..." line, holds no blank line inside, and ends with one
\* blank line, the same whatever its result.
OneBlankLineAfterEveryEntry ==
    AtLoopHead =>
        \A k \in 1..Len(Entries) :
            /\ k <= N
            /\ Entries[k][1] = TestingLine(urls_to_test[k])
            /\ Count(StripBlank(Entries[k]), IsBlank) = 0
            /\ TrailingBlanks(Entries[k]) = 1

====
